---- MODULE Spec2Model ----
(***************************************************************************)
(* A model of the Konkan-coast analysis scripts: processing.py, output.py, *)
(* dec27_code.py and bio_3d.py.  Every script is a linear batch job, so a  *)
(* run is determined by the environment it reads (the directory listing,   *)
(* the NetCDF files); Init draws that environment from bounded sets and    *)
(* the actions are the steps of the script, in source order.               *)
(***************************************************************************)
EXTENDS Integers, Sequences, FiniteSets

VARIABLES script,       \* which script this run executes
          pc,           \* position in the script
          exit_status,  \* process exit status, -1 while the script runs
          stdout,       \* the lines printed so far (message tags)
          env,          \* the environment the script reads (files on disk)
          file_list,    \* processing.py / output.py: file_list
          i,            \* index of the current for loop (next element)
          datasets,     \* processing.py / output.py: datasets
          ds,           \* the assembled dataset: its time index
          zone_data,    \* output.py: zone_data of the zone handled last
          ts,           \* output.py: ts of the zone handled last
          prediction_report,  \* output.py: prediction_report
          last_call,    \* dec27_code.py: the last call of extract_and_process
          npp_subset, npp_100m, integrated_npp,   \* dec27_code.py, STEP 1
          no3_subset, surf_no3, deep_no3,         \* dec27_code.py, STEP 2
          o2_subset, deep_o2,                     \* dec27_code.py, STEP 3
          ds_merged,                              \* bio_3d.py, STEP 1
          npp_integrated, no3_surface, no3_deep, o2_deep   \* bio_3d.py, STEP 2

loadVars == <<file_list, datasets, ds>>
predictVars == <<zone_data, ts, prediction_report>>
decVars == <<last_call, npp_subset, npp_100m, integrated_npp, no3_subset,
             surf_no3, deep_no3, o2_subset, deep_o2>>
bioVars == <<ds_merged, npp_integrated, no3_surface, no3_deep, o2_deep>>
bgcVars == <<decVars, bioVars>>
vars == <<script, pc, exit_status, stdout, env, i, loadVars, predictVars, bgcVars>>

\* ------------------------------------------------------------------ bounds
MaxFiles == 2

\* --------------------------------------------------------- process status
\* exit() with no argument raises SystemExit(None): exit status 0
ExitNoArg == 0
\* the interpreter ends a run on an uncaught exception with status 1
ExitUncaught == 1
\* falling off the end of the script
ExitNormal == 0

\* a printed line is a record: its text in msg, the values it shows beside
Emit(out, text) == Append(out, [msg |-> text])
EmitLine(out, line) == Append(out, line)

\* ------------------------------------------------------ float arithmetic
\* A float is kept as the exact fraction n/d, d > 0, in lowest terms; d = 0
\* holds the special values: 0/0 is NaN, 1/0 is inf, -1/0 is -inf.  Rounding
\* error of the binary representation is not modelled.
RECURSIVE Gcd(_, _)
Gcd(a, b) == IF b = 0 THEN a ELSE Gcd(b, a % b)
Abs(x) == IF x < 0 THEN -x ELSE x
Sign(x) == IF x < 0 THEN -1 ELSE IF x > 0 THEN 1 ELSE 0

Float(n, d) ==
    IF d = 0 THEN [n |-> Sign(n), d |-> 0]
    ELSE LET g == Gcd(Abs(n), Abs(d))
         IN [n |-> Sign(d) * (n \div g), d |-> Abs(d) \div g]

NaN == [n |-> 0, d |-> 0]
IsNaN(x) == x.d = 0 /\ x.n = 0
IsInf(x) == x.d = 0 /\ x.n # 0
IsFinite(x) == x.d # 0

FAdd(x, y) ==
    IF IsNaN(x) \/ IsNaN(y) THEN NaN
    ELSE IF IsInf(x) /\ IsInf(y) THEN (IF x.n = y.n THEN x ELSE NaN)
    ELSE IF IsInf(x) THEN x
    ELSE IF IsInf(y) THEN y
    ELSE Float(x.n * y.d + y.n * x.d, x.d * y.d)
FNeg(x) == [n |-> -x.n, d |-> x.d]
FSub(x, y) == FAdd(x, FNeg(y))
FMul(x, y) ==
    IF IsNaN(x) \/ IsNaN(y) THEN NaN
    ELSE IF IsInf(x) \/ IsInf(y) THEN Float(Sign(x.n) * Sign(y.n), 0)
    ELSE Float(x.n * y.n, x.d * y.d)
\* numpy division: x / 0 is +-inf, 0 / 0 is nan, no exception
FDiv(x, y) ==
    IF IsNaN(x) \/ IsNaN(y) THEN NaN
    ELSE IF IsInf(x) /\ IsInf(y) THEN NaN
    ELSE IF IsInf(y) THEN Float(0, 1)
    ELSE IF IsInf(x) THEN Float(x.n * (IF y.n < 0 THEN -1 ELSE 1), 0)
    ELSE Float(x.n * y.d, x.d * y.n)
\* comparisons with NaN are False
FLt(x, y) ==
    IF IsNaN(x) \/ IsNaN(y) THEN FALSE
    ELSE IF IsInf(x) \/ IsInf(y)
    THEN (IF IsInf(x) THEN x.n ELSE 0) < (IF IsInf(y) THEN y.n ELSE 0)
    ELSE x.n * y.d < y.n * x.d
FGt(x, y) == FLt(y, x)
FEq(x, y) == ~IsNaN(x) /\ ~IsNaN(y) /\ x = y

\* an integer, and a decimal literal with k digits after the point
Num(n) == Float(n, 1)
Tenths(n) == Float(n, 10)
Hundredths(n) == Float(n, 100)

RECURSIVE SumValid(_)
SumValid(xs) ==
    IF xs = <<>> THEN Num(0)
    ELSE IF IsNaN(Head(xs)) THEN SumValid(Tail(xs))
    ELSE FAdd(Head(xs), SumValid(Tail(xs)))
CountValid(xs) == Cardinality({k \in 1..Len(xs) : ~IsNaN(xs[k])})

\* .mean(skipna=True): the mean of the values that are not missing, NaN when
\* there is none
NanMean(xs) ==
    IF CountValid(xs) = 0 THEN NaN ELSE FDiv(SumValid(xs), Num(CountValid(xs)))
\* .sum(skipna=True): the missing values count as 0, so all-missing sums to 0
NanSum(xs) == SumValid(xs)
\* .min(skipna=True)
NanMin(xs) ==
    IF CountValid(xs) = 0 THEN NaN
    ELSE LET valid == {k \in 1..Len(xs) : ~IsNaN(xs[k])}
         IN xs[CHOOSE k \in valid : \A m \in valid : ~FLt(xs[m], xs[k])]

\* format(x, '.<digits>f'): the value rounded (half to even) to that many
\* decimals, kept as an integer count of the last decimal; nan / inf as text
RECURSIVE Pow10(_)
Pow10(k) == IF k = 0 THEN 1 ELSE 10 * Pow10(k - 1)
RoundHalfEven(n, d) ==
    LET q == n \div d
        r == n % d
    IN IF 2 * r < d THEN q
       ELSE IF 2 * r > d THEN q + 1
       ELSE IF q % 2 = 0 THEN q ELSE q + 1
Format(x, digits) ==
    IF IsNaN(x) THEN [text |-> "nan", value |-> 0]
    ELSE IF IsInf(x) THEN [text |-> IF x.n > 0 THEN "inf" ELSE "-inf", value |-> 0]
    ELSE [text |-> "number", value |-> RoundHalfEven(x.n * Pow10(digits), x.d)]

\* ------------------------------------------------------------- characters
Digits == <<"0", "1", "2", "3", "4", "5", "6", "7", "8", "9">>
\* the characters of the modelled file names, in code-point order
Alphabet == <<".">> \o Digits \o <<"A", "c", "n">>

IsDigit(c) == \E k \in 1..Len(Digits) : Digits[k] = c
DigitVal(c) == CHOOSE k \in 0..9 : Digits[k + 1] = c
DigitChar(n) == Digits[n + 1]
CharOrd(c) == CHOOSE k \in 1..Len(Alphabet) : Alphabet[k] = c

\* str < str: lexicographic by code point
RECURSIVE StrLess(_, _)
StrLess(a, b) ==
    IF b = <<>> THEN FALSE
    ELSE IF a = <<>> THEN TRUE
    ELSE IF Head(a) # Head(b) THEN CharOrd(Head(a)) < CharOrd(Head(b))
    ELSE StrLess(Tail(a), Tail(b))

\* sorted(glob.glob(...)) over a set of distinct paths
RECURSIVE Sorted(_)
Sorted(S) ==
    IF S = {} THEN <<>>
    ELSE LET m == CHOOSE x \in S : \A y \in S \ {x} : StrLess(x, y)
         IN <<m>> \o Sorted(S \ {m})

\* ------------------------------------------------------- 2025 calendar
DaysInMonth == <<31, 28, 31, 30, 31, 30, 31, 31, 30, 31, 30, 31>>
DaysInYear == 365

RECURSIVE DaysBefore(_)
DaysBefore(m) == IF m <= 1 THEN 0 ELSE DaysInMonth[m - 1] + DaysBefore(m - 1)

\* A timestamp of 2025 is kept as its ordinal day 1..365.
Timestamp(month, day) == DaysBefore(month) + day

\* results of the date recovery
NoTimestamp == [kind |-> "none", day |-> 0]
Raised == [kind |-> "raise", day |-> 0]
Time(d) == [kind |-> "time", day |-> d]

\* pd.to_datetime(date_str, format='%Y%m%d') on "2025MMDD"
ToDatetimeYmd(date_str) ==
    LET month == 10 * DigitVal(date_str[5]) + DigitVal(date_str[6])
        day == 10 * DigitVal(date_str[7]) + DigitVal(date_str[8])
    IN IF /\ month \in 1..12
          /\ day >= 1
          /\ day <= DaysInMonth[month]
       THEN Time(Timestamp(month, day))
       ELSE Raised

\* pd.to_datetime(year * 1000 + day_of_year, format='%Y%j')
ToDatetimeJulian(day_of_year) ==
    IF day_of_year \in 1..DaysInYear THEN Time(day_of_year) ELSE Raised

\* ------------------------------------------------ filename date extraction
Year == <<"2", "0", "2", "5">>

\* the pattern (2025)(\d{n}) matches s at position p
MatchAt(s, p, n) ==
    /\ p + 3 + n <= Len(s)
    /\ SubSeq(s, p, p + 3) = Year
    /\ \A k \in (p + 4)..(p + 3 + n) : IsDigit(s[k])

\* re.search: the leftmost match, <<>> when there is none
Search(s, n) ==
    LET hits == {p \in 1..Len(s) : MatchAt(s, p, n)}
    IN IF hits = {} THEN <<>>
       ELSE LET p == CHOOSE q \in hits : \A r \in hits : q <= r
            IN SubSeq(s, p, p + 3 + n)

JulianFallback(filename) ==
    LET match_julian == Search(filename, 3)
    IN IF match_julian # <<>>
       THEN ToDatetimeJulian(100 * DigitVal(match_julian[5])
                             + 10 * DigitVal(match_julian[6])
                             + DigitVal(match_julian[7]))
       ELSE NoTimestamp

\* the timestamp a file name yields: YYYYMMDD first, YYYYDDD as the fallback
ExtractTimestamp(filename) ==
    LET match == Search(filename, 4)
    IN IF match # <<>> THEN ToDatetimeYmd(match) ELSE JulianFallback(filename)

\* ------------------------------------------------------ the loader's input
Stem == <<"A">>
Ext == <<".", "n", "c">>

TwoDigits(n) == <<DigitChar(n \div 10), DigitChar(n % 10)>>
ThreeDigits(n) == <<DigitChar(n \div 100)>> \o TwoDigits(n % 100)

MonthOf(d) == CHOOSE m \in 1..12 : DaysBefore(m) < d /\ d <= DaysBefore(m) + DaysInMonth[m]

\* the two ways a product writes the date d of 2025 into a file name
WriteYmd(d) == Year \o TwoDigits(MonthOf(d)) \o TwoDigits(d - DaysBefore(MonthOf(d)))
WriteJulian(d) == Year \o ThreeDigits(d)

SampleDays == {32, 45}
\* what follows the date in the name: nothing, or a further digit
DateTails == {<<>>, <<"1">>}

FileNames ==
    {Stem \o Ext}
    \cup {Stem \o WriteYmd(d) \o t \o Ext : d \in SampleDays, t \in DateTails}
    \cup {Stem \o WriteJulian(d) \o t \o Ext : d \in SampleDays, t \in DateTails}

\* what a path matched by the glob is: a readable NetCDF file, a file that
\* xr.open_dataset cannot open, or a directory
EntryKinds == {"file", "corrupt", "dir"}

Directories ==
    UNION {[S -> EntryKinds] : S \in {T \in SUBSET FileNames : Cardinality(T) <= MaxFiles}}

LoaderScripts == {"processing", "output"}

\* the variables of the 3D scripts, before they run
IdleBgc ==
    /\ last_call = [fname |-> "", var_name |-> <<>>, target_var |-> <<>>, found |-> FALSE]
    /\ npp_subset = [isnone |-> TRUE]
    /\ npp_100m = [isnone |-> TRUE]
    /\ integrated_npp = [isnone |-> TRUE]
    /\ no3_subset = [isnone |-> TRUE]
    /\ surf_no3 = [isnone |-> TRUE]
    /\ deep_no3 = [isnone |-> TRUE]
    /\ o2_subset = [isnone |-> TRUE]
    /\ deep_o2 = [isnone |-> TRUE]
    /\ ds_merged = [isnone |-> TRUE]
    /\ npp_integrated = [isnone |-> TRUE]
    /\ no3_surface = [isnone |-> TRUE]
    /\ no3_deep = [isnone |-> TRUE]
    /\ o2_deep = [isnone |-> TRUE]

\* ------------------------------------------------------------ the loader
InitLoad ==
    /\ IdleBgc
    /\ script \in LoaderScripts
    /\ env \in Directories
    /\ pc = "glob"
    /\ exit_status = -1   \* no exit status while the script runs
    /\ stdout = <<>>
    /\ file_list = <<>>
    /\ i = 1
    /\ datasets = <<>>
    /\ ds = <<>>
    /\ zone_data = <<>>
    /\ ts = <<>>
    /\ prediction_report = <<>>

\* file_list = sorted(glob.glob(data_folder)), regular files only; exit()
\* when it is empty
Glob ==
    /\ pc = "glob"
    /\ LET listed == Sorted({f \in DOMAIN env : env[f] # "dir"})
       IN /\ file_list' = listed
          /\ IF listed = <<>>
             THEN /\ stdout' = Emit(stdout, "Error: No files found")
                  /\ exit_status' = ExitNoArg
                  /\ pc' = "done"
             ELSE /\ stdout' = stdout
                  /\ exit_status' = exit_status
                  /\ pc' = "load"
    /\ UNCHANGED <<script, env, i, datasets, ds, predictVars, bgcVars>>

\* one iteration of `for f in file_list`
LoadStep(f) ==
    IF env[f] = "corrupt"
    THEN [append |-> FALSE, line |-> "Skipping: open error"]
    ELSE LET timestamp == ExtractTimestamp(f)
         IN IF timestamp.kind = "raise"
            THEN [append |-> FALSE, line |-> "Skipping: parse error"]
            ELSE IF timestamp.kind = "none"
            THEN [append |-> FALSE, line |-> "Warning: Could not parse date"]
            ELSE [append |-> TRUE, line |-> ""]

\* a loop without the inner try/except: the first bad file ends the loading
AfterFileAbort(k, step) == IF step.append THEN k + 1 ELSE Len(file_list) + 1

\* `continue`: whatever happened to this file, the loop goes on to the next
AfterFile(k, step) == k + 1

LoadFile ==
    /\ pc = "load"
    /\ i <= Len(file_list)
    /\ LET f == file_list[i]
           step == LoadStep(f)
       IN /\ datasets' = IF step.append
                         THEN Append(datasets, [file |-> f, time |-> ExtractTimestamp(f).day])
                         ELSE datasets
          \* only processing.py prints why a file is skipped
          /\ stdout' = IF script = "processing" /\ ~step.append
                       THEN Emit(stdout, step.line)
                       ELSE stdout
    /\ i' = AfterFile(i, LoadStep(file_list[i]))
    /\ UNCHANGED <<script, pc, exit_status, env, file_list, ds, predictVars, bgcVars>>

\* ds.sortby('time'): a stable sort of the time index
RECURSIVE SortBy(_)
SortBy(s) ==
    IF s = <<>> THEN <<>>
    ELSE LET k == CHOOSE a \in 1..Len(s) :
                      /\ \A b \in 1..Len(s) : s[a] <= s[b]
                      /\ \A b \in 1..(a - 1) : s[b] # s[a]
         IN <<s[k]>> \o SortBy(SubSeq(s, 1, k - 1) \o SubSeq(s, k + 1, Len(s)))

\* xr.concat(datasets, dim='time'): one time step per loaded file
Concat(dss) == [k \in 1..Len(dss) |-> dss[k].time]

Assemble ==
    /\ pc = "load"
    /\ i > Len(file_list)
    /\ IF datasets = <<>>
       THEN IF script = "processing"
            THEN \* `if not datasets: print(...); exit()`
                 /\ stdout' = Emit(stdout, "Error: No valid datasets could be loaded.")
                 /\ exit_status' = ExitNoArg
                 /\ pc' = "done"
                 /\ ds' = ds
            ELSE \* output.py: xr.concat([]) raises ValueError, nothing catches it
                 /\ stdout' = Emit(stdout, "Traceback: ValueError")
                 /\ exit_status' = ExitUncaught
                 /\ pc' = "done"
                 /\ ds' = ds
       ELSE /\ ds' = SortBy(Concat(datasets))
            /\ stdout' = IF script = "processing"
                         THEN Emit(stdout, "Successfully compiled dataset")
                         ELSE stdout
            /\ exit_status' = exit_status
            /\ pc' = "loaded"
    /\ UNCHANGED <<script, env, file_list, i, datasets, predictVars, bgcVars>>

\* the rest of the script on the assembled dataset: reduce, plot, report
ReportLoaded ==
    /\ pc = "loaded"
    /\ stdout' = Emit(stdout, "REPORT")
    /\ exit_status' = ExitNormal
    /\ pc' = "done"
    /\ UNCHANGED <<script, env, file_list, i, datasets, ds, predictVars, bgcVars>>

NextLoad == Glob \/ LoadFile \/ Assemble \/ ReportLoaded

SpecLoad == InitLoad /\ [][NextLoad]_vars

\* ======================================================================
\* output.py, STEP 2-4: the prediction model on the weekly dataset
\* ======================================================================
MaxChl == 400
MaxCells == 2

BASELINE_CHL == Num(2)
TROPHIC_SENSITIVITY == Tenths(8)
zones == <<"Mumbai", "Ratnagiri", "Sindhudurg">>

\* ds_weekly as the script reads it: env.time[w] tells whether week w lies
\* in the bloom window 2025-10-01..2025-11-30, env.grid[zone][w] holds the
\* chlor_a cells that the zone's lat/lon box selects in week w (none when
\* the selection is empty).
TimeAxes == {<<TRUE>>, <<FALSE>>, <<FALSE, TRUE>>, <<TRUE, TRUE>>}
ZoneNames == {zones[k] : k \in 1..Len(zones)}

\* one value everywhere in the zone, missing where the mask says so
Masked(v, mask) == [w \in 1..Len(mask) |->
                      [c \in 1..Len(mask[w]) |-> IF mask[w][c] THEN v ELSE NaN]]
Masks(weeks) ==
    UNION {[1..weeks -> [1..n -> BOOLEAN]] : n \in 0..MaxCells}
Clear(weeks) == [w \in 1..weeks |-> <<TRUE>>]

\* open water everywhere, every chlorophyll level 0.00 .. MaxChl / 100
UniformSeas ==
    {[time |-> <<FALSE, TRUE>>,
      grid |-> [z \in ZoneNames |-> Masked(Hundredths(v), Clear(2))]] :
        v \in 0..MaxChl}
\* two chlorophyll levels, every pattern of missing cells in one of the zones
MaskedSeas ==
    {[time |-> t,
      grid |-> [z \in ZoneNames |->
                  Masked(Hundredths(v), IF z = focus THEN m ELSE Clear(Len(t)))]] :
        t \in TimeAxes, v \in {80, 250}, focus \in ZoneNames,
        m \in UNION {Masks(Len(a)) : a \in TimeAxes}}
WeeklyDatasets ==
    UniformSeas \cup {e \in MaskedSeas : \A z \in ZoneNames : Len(e.grid[z]) = Len(e.time)}

InitPredict ==
    /\ IdleBgc
    /\ script = "output"
    /\ env \in WeeklyDatasets
    /\ pc = "predict"
    /\ exit_status = -1   \* no exit status while the script runs
    /\ stdout = <<>>
    /\ i = 1
    /\ file_list = <<>>
    /\ datasets = <<>>
    /\ ds = <<>>
    /\ zone_data = <<>>
    /\ ts = <<>>
    /\ prediction_report = <<>>

\* zone_data.mean(dim=['lat', 'lon'], skipna=True)
SpatialMean(zd) == [w \in 1..Len(zd) |-> NanMean(zd[w])]

\* ts.sel(time=slice('2025-10-01', '2025-11-30'))
RECURSIVE SelBloom(_, _)
SelBloom(series, time) ==
    IF series = <<>> THEN <<>>
    ELSE IF Head(time) THEN <<Head(series)>> \o SelBloom(Tail(series), Tail(time))
    ELSE SelBloom(Tail(series), Tail(time))

AvgObservedChl(series, time) ==
    LET bloom_period == SelBloom(series, time)
    IN IF Len(bloom_period) > 0 THEN NanMean(bloom_period) ELSE Num(0)

PPIAnomaly(avg_observed_chl) == FDiv(FSub(avg_observed_chl, BASELINE_CHL), BASELINE_CHL)

YieldGapPercentDampedAlways(ppi_anomaly) ==
    FMul(FMul(FMul(ppi_anomaly, TROPHIC_SENSITIVITY), Num(100)), Tenths(2))
YieldGapPercent(ppi_anomaly) ==
    LET yield_gap_percent == FMul(FMul(ppi_anomaly, TROPHIC_SENSITIVITY), Num(100))
    IN IF FGt(yield_gap_percent, Num(0))
       THEN FMul(yield_gap_percent, Tenths(2))
       ELSE yield_gap_percent

PredictionRow(zone_name, series, time) ==
    LET avg_observed_chl == AvgObservedChl(series, time)
        ppi_anomaly == PPIAnomaly(avg_observed_chl)
    IN [Zone |-> zone_name,
        Observed_Chl |-> avg_observed_chl,
        PPI_Anomaly |-> FMul(ppi_anomaly, Num(100)),
        Yield_Forecast |-> YieldGapPercent(ppi_anomaly)]

\* one iteration of `for zone_name, bounds in zones.items()`
PredictZone ==
    /\ pc = "predict"
    /\ i <= Len(zones)
    /\ zone_data' = env.grid[zones[i]]
    /\ ts' = SpatialMean(env.grid[zones[i]])
    /\ prediction_report' =
          Append(prediction_report,
                 PredictionRow(zones[i], SpatialMean(env.grid[zones[i]]), env.time))
    /\ i' = i + 1
    /\ UNCHANGED <<script, pc, exit_status, stdout, env, loadVars, bgcVars>>

\* STEP 3 (the chart) and the header of the text report
ReportHeader ==
    /\ pc = "predict"
    /\ i > Len(zones)
    /\ stdout' = Emit(stdout, "PREDICTIVE GOVERNANCE REPORT: Q1 2026 FORECAST")
    /\ pc' = "report"
    /\ i' = 1
    /\ UNCHANGED <<script, exit_status, env, loadVars, predictVars, bgcVars>>

StatusStressedLast(ppi) ==
    LET s0 == "STABLE"
        s1 == IF FLt(ppi, Num(-50)) THEN "CRITICAL" ELSE s0
    IN IF FLt(ppi, Num(-20)) THEN "STRESSED" ELSE s1
Status(ppi) ==
    LET s0 == "STABLE"
        s1 == IF FLt(ppi, Num(-20)) THEN "STRESSED" ELSE s0
    IN IF FLt(ppi, Num(-50)) THEN "CRITICAL" ELSE s1

ForecastStrNonNegative(forecast) ==
    IF ~FLt(forecast, Num(0))
    THEN [direction |-> "Growth", amount |-> Format(forecast, 1)]
    ELSE [direction |-> "Decline", amount |-> Format(forecast, 1)]
ForecastStr(forecast) ==
    IF FGt(forecast, Num(0))
    THEN [direction |-> "Growth", amount |-> Format(forecast, 1)]
    ELSE [direction |-> "Decline", amount |-> Format(forecast, 1)]

ReportLine(row) ==
    [msg |-> "row",
     Zone |-> row.Zone,
     obs |-> Format(row.Observed_Chl, 2),
     ppi |-> Format(row.PPI_Anomaly, 1),
     status |-> Status(row.PPI_Anomaly),
     forecast_str |-> ForecastStr(row.Yield_Forecast)]

\* one iteration of `for row in prediction_report`
ReportRow ==
    /\ pc = "report"
    /\ i <= Len(prediction_report)
    /\ stdout' = EmitLine(stdout, ReportLine(prediction_report[i]))
    /\ i' = i + 1
    /\ UNCHANGED <<script, pc, exit_status, env, loadVars, predictVars, bgcVars>>

ReportFooter ==
    /\ pc = "report"
    /\ i > Len(prediction_report)
    /\ stdout' = Emit(stdout, "INTERPRETATION")
    /\ exit_status' = ExitNormal
    /\ pc' = "done"
    /\ UNCHANGED <<script, env, i, loadVars, predictVars, bgcVars>>

NextPredict == PredictZone \/ ReportHeader \/ ReportRow \/ ReportFooter

SpecPredict == InitPredict /\ [][NextPredict]_vars

\* ======================================================================
\* dec27_code.py and bio_3d.py: the three 3D biogeochemical files
\* ======================================================================
MaxVars == 2
MaxO2 == 200
MaxNpp == 5
MaxNo3 == 20

files == [prod |-> "konkan_bgc_nppv_o2.nc",
          nut |-> "konkan_bgc_no3.nc",
          bio |-> "konkan_bgc_chl_phyc.nc"]
BgcFiles == {files.prod, files.nut, files.bio}

\* variable names, character by character
nppv == <<"n", "p", "p", "v">>
o2 == <<"o", "2">>
no3 == <<"n", "o", "3">>
chl == <<"c", "h", "l">>
phyc == <<"p", "h", "y", "c">>

UpperCase == <<"N", "P", "V", "O">>
LowerCase == <<"n", "p", "v", "o">>
LowerChar(c) ==
    IF \E k \in 1..Len(UpperCase) : UpperCase[k] = c
    THEN LowerCase[CHOOSE k \in 1..Len(UpperCase) : UpperCase[k] = c]
    ELSE c
\* str.lower()
Lower(s) == [k \in 1..Len(s) |-> LowerChar(s[k])]

\* `s in t` on strings: s occurs in t as a contiguous run of characters
Contains(t, s) == \E p \in 1..(Len(t) - Len(s) + 1) : SubSeq(t, p, p + Len(s) - 1) = s

\* None, and a value that is not None
None == [isnone |-> TRUE]
Some(x) == [isnone |-> FALSE, value |-> x]
NoVar == <<>>

\* ------------------------------------------------------ the files on disk
\* env.status[f]     the file exists and opens ("ok"), is absent, or is corrupt
\* env.data_vars[f]  list(ds.data_vars) of the file
\* env.depth[f]      the depth levels of the file, <<>> when it has no depth
\* env.time          for each time step, whether it lies in the bloom window
\* env.field[kind]   the values inside the Ratnagiri box: [time][level][cell]
\* env.mergeable     whether xr.merge accepts the three files together
VarNames == {nppv, <<"N", "P", "P", "V">>, o2, <<"d", "O", "2">>, <<"O", "2", "s">>, no3}
VarLists ==
    {l \in UNION {[1..n -> VarNames] : n \in 0..MaxVars} :
        \A a, b \in 1..Len(l) : a # b => l[a] # l[b]}

\* which physical quantity a variable of that name holds
KindOf(name) ==
    IF Contains(Lower(name), nppv) THEN "nppv"
    ELSE IF Contains(Lower(name), no3) THEN "no3"
    ELSE IF Contains(Lower(name), o2) THEN "o2"
    ELSE IF Contains(Lower(name), chl) THEN "chl"
    ELSE "phyc"
Kinds == {"nppv", "no3", "o2", "chl", "phyc"}

StdDepth == <<Num(0), Num(50), Num(100)>>
NLayers(depth) == IF depth = <<>> THEN 1 ELSE Len(depth)

\* one cell per level; a profile gives the value at each level
Layers(profile) == [d \in 1..Len(profile) |-> <<profile[d]>>]
Flat(v) == <<v, v, v>>
Steady(profile, steps) == [t \in 1..steps |-> Layers(profile)]
AllMissing(steps) == [t \in 1..steps |-> Layers(Flat(NaN))]
FirstMissing(profile, steps) ==
    [t \in 1..steps |-> IF t = 1 THEN Layers(Flat(NaN)) ELSE Layers(profile)]
LaterMissing(profile, steps) ==
    [t \in 1..steps |-> IF t = 1 THEN Layers(profile) ELSE Layers(Flat(NaN))]
Shapes(profile, steps) ==
    {Steady(profile, steps), AllMissing(steps),
     FirstMissing(profile, steps), LaterMissing(profile, steps)}

\* the value of each quantity at each level, in the default sea
Profile == [nppv |-> Flat(Num(3)),
            no3 |-> <<Tenths(3), Num(5), Num(12)>>,
            o2 |-> Flat(Num(80)),
            chl |-> Flat(Num(1)),
            phyc |-> Flat(Num(1))]

SeaDefault ==
    [status |-> [f \in BgcFiles |-> "ok"],
     data_vars |-> [f \in BgcFiles |-> IF f = files.prod THEN <<nppv, o2>>
                                        ELSE IF f = files.nut THEN <<no3>>
                                        ELSE <<chl, phyc>>],
     depth |-> [f \in BgcFiles |-> StdDepth],
     time |-> <<FALSE, TRUE>>,
     mergeable |-> TRUE,
     field |-> [k \in Kinds |-> Steady(Profile[k], 2)]]


\* files missing or corrupt, variables missing over part or all of the period
SeasPartlyUnavailable ==
    {[SeaDefault EXCEPT !.status = st, !.time = t, !.mergeable = mg,
                        !.field = [k \in Kinds |->
                                     IF k = "nppv" THEN a
                                     ELSE IF k = "no3" THEN b
                                     ELSE IF k = "o2" THEN c
                                     ELSE Steady(Profile[k], Len(t))]] :
        st \in [BgcFiles -> {"ok", "missing", "corrupt"}],
        t \in {<<TRUE>>, <<FALSE, TRUE>>}, mg \in BOOLEAN,
        a \in UNION {Shapes(Profile.nppv, n) : n \in 1..2},
        b \in UNION {Shapes(Profile.no3, n) : n \in 1..2},
        c \in UNION {Shapes(Profile.o2, n) : n \in 1..2}}
\* every list of variable names, in every file
SeasRenamed ==
    {[SeaDefault EXCEPT !.data_vars = [f \in BgcFiles |-> l]] : l \in VarLists}
\* files without a depth dimension
SeasFlat ==
    {[SeaDefault EXCEPT !.depth = dp] : dp \in [BgcFiles -> {StdDepth, <<>>}]}
\* every oxygen level 0 .. MaxO2
SeasOxygen ==
    {[SeaDefault EXCEPT !.field["o2"] = Steady(Flat(Num(m)), 2)] : m \in 0..MaxO2}
\* every pair of production levels outside and inside the bloom window
SeasProduction ==
    {[SeaDefault EXCEPT !.field["nppv"] =
                            <<Layers(Flat(Num(a))), Layers(Flat(Num(b)))>>] :
        a \in (-MaxNpp)..MaxNpp, b \in (-MaxNpp)..MaxNpp}

\* three surface nitrate levels, every deep nitrate level 0 .. MaxNo3
SeasNitrate ==
    {[SeaDefault EXCEPT !.field["no3"] = Steady(<<sf, sf, Num(dp)>>, 2)] :
        sf \in {Num(0), Tenths(3), Num(1)}, dp \in 0..MaxNo3}

\* other samplings of the water column, oxygen decreasing with depth
SeasSampled ==
    {[SeaDefault EXCEPT !.depth = [f \in BgcFiles |-> dp],
                        !.field["o2"] = Steady(<<Num(200), Num(150), Num(100)>>, 2)] :
        dp \in {StdDepth,
                <<Hundredths(49), Num(60), Num(90)>>,
                <<Num(0), Num(50), Num(160)>>,
                <<Num(0), Num(40), Num(100)>>,
                <<Num(0), Num(100)>>,
                <<Num(30)>>}}

BgcSeas ==
    {e \in SeasPartlyUnavailable :
        \A k \in Kinds : Len(e.field[k]) = Len(e.time)}
    \cup SeasRenamed \cup SeasFlat \cup SeasOxygen \cup SeasProduction
    \cup SeasNitrate \cup SeasSampled

\* ------------------------------------------- dec27_code.py: the helper
\* the variable the request resolves to, NoVar when there is none
FirstPartialCaseSensitive(var_name, data_vars) ==
    LET hits == {k \in 1..Len(data_vars) : Contains(data_vars[k], var_name)}
    IN IF hits = {} THEN NoVar
       ELSE data_vars[CHOOSE k \in hits : \A m \in hits : k <= m]
FirstPartial(var_name, data_vars) ==
    LET hits == {k \in 1..Len(data_vars) :
                    Contains(Lower(data_vars[k]), Lower(var_name))}
    IN IF hits = {} THEN NoVar
       ELSE data_vars[CHOOSE k \in hits : \A m \in hits : k <= m]

TargetVar(var_name, data_vars) ==
    IF \E k \in 1..Len(data_vars) : data_vars[k] = var_name
    THEN var_name
    ELSE FirstPartial(var_name, data_vars)

RECURSIVE Flatten(_)
Flatten(ss) == IF ss = <<>> THEN <<>> ELSE Head(ss) \o Flatten(Tail(ss))

\* ds[target_var].sel(latitude=lat_slice, longitude=lon_slice)
Subset(fname, target_var) ==
    [depth |-> env.depth[fname],
     data |-> [t \in 1..Len(env.time) |->
                 SubSeq(env.field[KindOf(target_var)][t], 1, NLayers(env.depth[fname]))]]

\* extract_and_process(fname, var_name, label): what it returns, the
\* variable it resolved, the lines it prints
ExtractAndProcess(fname, var_name, label) ==
    IF env.status[fname] = "missing"
    THEN [subset |-> None, target_var |-> NoVar,
          lines |-> <<[msg |-> "Missing file", fname |-> fname]>>]
    ELSE IF env.status[fname] = "corrupt"
    THEN [subset |-> None, target_var |-> NoVar,
          lines |-> <<[msg |-> "Error processing", fname |-> fname]>>]
    ELSE LET data_vars == env.data_vars[fname]
             target_var == TargetVar(var_name, data_vars)
             using == IF target_var # NoVar /\ target_var # var_name
                      THEN <<[msg |-> "Using", v |-> target_var, requested |-> var_name]>>
                      ELSE <<>>
         IN IF target_var = NoVar
            THEN [subset |-> None, target_var |-> NoVar,
                  lines |-> <<[msg |-> "Variable not found", requested |-> var_name,
                               fname |-> fname, available |-> data_vars]>>]
            ELSE LET subset == Subset(fname, target_var)
                     sample == subset.data[1]
                     valid_count == CountValid(Flatten(sample))
                 IN IF valid_count = 0
                    THEN [subset |-> None, target_var |-> target_var,
                          lines |-> using \o
                                    <<[msg |-> "Zone contains only NaN", label |-> label]>>]
                    ELSE [subset |-> Some(subset), target_var |-> target_var,
                          lines |-> using \o
                                    <<[msg |-> "Loaded successfully", label |-> label,
                                       valid_count |-> valid_count]>>]

\* the arguments of a call, the variable it resolved, whether it returned data
Call(fname, var_name, r) ==
    [fname |-> fname, var_name |-> var_name, target_var |-> r.target_var,
     found |-> ~r.subset.isnone]

\* --------------------------------------------------- reductions on a subset
FAbs(x) == IF x.n < 0 THEN FNeg(x) ELSE x
FLe(x, y) == FLt(x, y) \/ FEq(x, y)
FMin(x, y) == IF FLt(y, x) THEN y ELSE x

\* .sel(depth=slice(lo, hi)): the levels lo <= depth <= hi, in order
RECURSIVE LevelsIn(_, _, _, _)
LevelsIn(depth, lo, hi, k) ==
    IF k > Len(depth) THEN <<>>
    ELSE IF FLe(lo, depth[k]) /\ FLe(depth[k], hi)
    THEN <<k>> \o LevelsIn(depth, lo, hi, k + 1)
    ELSE LevelsIn(depth, lo, hi, k + 1)
SelDepthSlice(sub, lo, hi) ==
    LET idx == LevelsIn(sub.depth, lo, hi, 1)
    IN [depth |-> [k \in 1..Len(idx) |-> sub.depth[idx[k]]],
        data |-> [t \in 1..Len(sub.data) |->
                    [k \in 1..Len(idx) |-> sub.data[t][idx[k]]]]]

\* .sel(depth=target, method='nearest'): the level at the least distance,
\* the deeper one on a tie
NearestLevel(depth, target) ==
    CHOOSE k \in 1..Len(depth) :
        /\ \A m \in 1..Len(depth) :
              ~FLt(FAbs(FSub(depth[m], target)), FAbs(FSub(depth[k], target)))
        /\ \A m \in (k + 1)..Len(depth) :
              FLt(FAbs(FSub(depth[k], target)), FAbs(FSub(depth[m], target)))
\* ... .mean(dim=['latitude', 'longitude'], skipna=True) of one level
LevelMean(sub, k) == [t \in 1..Len(sub.data) |-> NanMean(sub.data[t][k])]

DepthMin(depth) == depth[CHOOSE k \in 1..Len(depth) : \A m \in 1..Len(depth) : ~FLt(depth[m], depth[k])]
DepthMax(depth) == depth[CHOOSE k \in 1..Len(depth) : \A m \in 1..Len(depth) : ~FLt(depth[k], depth[m])]

\* .integrate(coord='depth'): the trapezoidal rule over the sampled levels;
\* a missing value in the profile makes the integral missing
RECURSIVE Trapz(_, _)
Trapz(x, y) ==
    IF Len(x) <= 1 THEN Num(0)
    ELSE FAdd(FDiv(FMul(FSub(x[2], x[1]), FAdd(y[1], y[2])), Num(2)),
              Trapz(Tail(x), Tail(y)))
NCells(sub) == IF sub.data = <<>> \/ sub.data[1] = <<>> THEN 1 ELSE Len(sub.data[1][1])
IntegrateDepth(sub) ==
    [t \in 1..Len(sub.data) |->
        [c \in 1..NCells(sub) |->
            Trapz(sub.depth, [k \in 1..Len(sub.depth) |-> sub.data[t][k][c]])]]
\* ... .mean(dim=['latitude', 'longitude'], skipna=True)
IntegratedMean(sub) ==
    LET cols == IntegrateDepth(sub)
    IN [t \in 1..Len(cols) |-> NanMean(cols[t])]

\* ------------------------------------------------- dec27_code.py, STEP 1-4
InitBgc ==
    /\ env \in BgcSeas
    /\ exit_status = -1   \* no exit status while the script runs
    /\ stdout = <<>>
    /\ i = 1
    /\ file_list = <<>>
    /\ datasets = <<>>
    /\ ds = <<>>
    /\ zone_data = <<>>
    /\ ts = <<>>
    /\ prediction_report = <<>>
    /\ IdleBgc

InitDec27 ==
    /\ script = "dec27"
    /\ pc = "npp_extract"
    /\ InitBgc
    /\ env.mergeable

\* npp_subset, ds_prod = extract_and_process(files['prod'], 'nppv', 'NPP')
DecExtractNPP ==
    /\ pc = "npp_extract"
    /\ LET r == ExtractAndProcess(files.prod, nppv, "NPP")
       IN /\ npp_subset' = r.subset
          /\ last_call' = Call(files.prod, nppv, r)
          /\ stdout' = stdout \o r.lines
          /\ pc' = IF r.subset.isnone THEN "no3_extract" ELSE "npp_select"
    /\ UNCHANGED <<script, exit_status, env, i, loadVars, predictVars, bioVars,
                   npp_100m, integrated_npp, no3_subset, surf_no3, deep_no3,
                   o2_subset, deep_o2>>

\* npp_100m = npp_subset.sel(depth=slice(0, 100)) and the all-zeros check;
\* without a depth dimension .sel raises and the except clause gives up
DecSelectNPP ==
    /\ pc = "npp_select"
    /\ IF npp_subset.value.depth = <<>>
       THEN /\ stdout' = Emit(stdout, "Integration failed")
            /\ npp_100m' = npp_100m
            /\ pc' = "no3_extract"
       ELSE LET sel == SelDepthSlice(npp_subset.value, Num(0), Num(100))
                mean == NanMean(Flatten(Flatten(sel.data)))
            IN /\ npp_100m' = Some(sel)
               /\ IF FEq(mean, Num(0)) \/ IsNaN(mean)
                  THEN /\ stdout' = Emit(stdout, "NPP data is all zeros/NaN - trying alternative")
                       /\ pc' = "npp_fallback"
                  ELSE /\ stdout' = stdout
                       /\ pc' = "npp_integrate"
    /\ UNCHANGED <<script, exit_status, env, i, loadVars, predictVars, bioVars,
                   last_call, npp_subset, integrated_npp, no3_subset, surf_no3,
                   deep_no3, o2_subset, deep_o2>>

\* chl_subset, _ = extract_and_process(files['bio'], 'chl', 'Chlorophyll')
DecFallbackChl ==
    /\ pc = "npp_fallback"
    /\ LET r == ExtractAndProcess(files.bio, chl, "Chlorophyll")
       IN /\ last_call' = Call(files.bio, chl, r)
          /\ IF r.subset.isnone
             THEN /\ stdout' = stdout \o r.lines
                  /\ npp_100m' = npp_100m
                  /\ pc' = "npp_integrate"
             ELSE IF r.subset.value.depth = <<>>
             THEN /\ stdout' = Emit(Emit(stdout \o r.lines,
                                         "Using chlorophyll as productivity proxy"),
                                    "Integration failed")
                  /\ npp_100m' = npp_100m
                  /\ pc' = "no3_extract"
             ELSE /\ stdout' = Emit(stdout \o r.lines,
                                    "Using chlorophyll as productivity proxy")
                  /\ npp_100m' = Some(SelDepthSlice(r.subset.value, Num(0), Num(100)))
                  /\ pc' = "npp_integrate"
    /\ UNCHANGED <<script, exit_status, env, i, loadVars, predictVars, bioVars,
                   npp_subset, integrated_npp, no3_subset, surf_no3, deep_no3,
                   o2_subset, deep_o2>>

\* integrated_npp = npp_100m.integrate(coord='depth').mean(dim=[...])
DecIntegrateNPP ==
    /\ pc = "npp_integrate"
    /\ integrated_npp' = Some(IntegratedMean(npp_100m.value))
    /\ stdout' = EmitLine(stdout,
                          [msg |-> "Integrated NPP calculated",
                           mean |-> Format(NanMean(IntegratedMean(npp_100m.value)), 2)])
    /\ pc' = "no3_extract"
    /\ UNCHANGED <<script, exit_status, env, i, loadVars, predictVars, bioVars,
                   last_call, npp_subset, npp_100m, no3_subset, surf_no3,
                   deep_no3, o2_subset, deep_o2>>

\* no3_subset, ds_nut = extract_and_process(files['nut'], 'no3', 'Nitrate')
DecExtractNO3 ==
    /\ pc = "no3_extract"
    /\ LET r == ExtractAndProcess(files.nut, no3, "Nitrate")
       IN /\ no3_subset' = r.subset
          /\ last_call' = Call(files.nut, no3, r)
          /\ stdout' = stdout \o r.lines
          /\ pc' = IF r.subset.isnone THEN "o2_extract" ELSE "no3_reduce"
    /\ UNCHANGED <<script, exit_status, env, i, loadVars, predictVars, bioVars,
                   npp_subset, npp_100m, integrated_npp, surf_no3, deep_no3,
                   o2_subset, deep_o2>>

\* the level nearest to min(target, deepest level present)
ClampedLevelDeepest(depth, target) ==
    CHOOSE k \in 1..Len(depth) : depth[k] = DepthMax(depth)
ClampedLevel(depth, target) == NearestLevel(depth, FMin(target, DepthMax(depth)))

\* surf_no3 at the shallowest level, deep_no3 at 100 m or the deepest level
DecReduceNO3 ==
    /\ pc = "no3_reduce"
    /\ LET sub == no3_subset.value
       IN IF sub.depth = <<>>
          THEN /\ stdout' = Emit(stdout, "Nitrate extraction failed")
               /\ UNCHANGED <<surf_no3, deep_no3>>
          ELSE /\ surf_no3' = Some(LevelMean(sub, NearestLevel(sub.depth, DepthMin(sub.depth))))
               /\ deep_no3' = Some(LevelMean(sub, ClampedLevel(sub.depth, Num(100))))
               /\ stdout' = Emit(stdout, "Extracted nitrate profiles")
    /\ pc' = "o2_extract"
    /\ UNCHANGED <<script, exit_status, env, i, loadVars, predictVars, bioVars,
                   last_call, npp_subset, npp_100m, integrated_npp, no3_subset,
                   o2_subset, deep_o2>>

\* o2_subset, _ = extract_and_process(files['prod'], 'o2', 'Oxygen')
DecExtractO2 ==
    /\ pc = "o2_extract"
    /\ LET r == ExtractAndProcess(files.prod, o2, "Oxygen")
       IN /\ o2_subset' = r.subset
          /\ last_call' = Call(files.prod, o2, r)
          /\ stdout' = stdout \o r.lines
          /\ pc' = IF r.subset.isnone THEN "plot" ELSE "o2_reduce"
    /\ UNCHANGED <<script, exit_status, env, i, loadVars, predictVars, bioVars,
                   npp_subset, npp_100m, integrated_npp, no3_subset, surf_no3,
                   deep_no3, deep_o2>>

\* deep_o2 at 50 m or the deepest level
DecReduceO2 ==
    /\ pc = "o2_reduce"
    /\ LET sub == o2_subset.value
       IN IF sub.depth = <<>>
          THEN /\ stdout' = Emit(stdout, "Oxygen extraction failed")
               /\ deep_o2' = deep_o2
          ELSE /\ deep_o2' = Some(LevelMean(sub, ClampedLevel(sub.depth, Num(50))))
               /\ stdout' = Emit(stdout, "Extracted oxygen")
    /\ pc' = "plot"
    /\ UNCHANGED <<script, exit_status, env, i, loadVars, predictVars, bioVars,
                   last_call, npp_subset, npp_100m, integrated_npp, no3_subset,
                   surf_no3, deep_no3, o2_subset>>

\* STEP 4: exit() when nothing was extracted, else the chart
DecPlot ==
    /\ pc = "plot"
    /\ IF integrated_npp.isnone /\ surf_no3.isnone /\ deep_o2.isnone
       THEN /\ stdout' = Emit(stdout, "CRITICAL: No data extracted. Cannot generate plot.")
            /\ exit_status' = ExitNoArg
            /\ pc' = "done"
       ELSE /\ stdout' = Emit(stdout, "Plot saved")
            /\ exit_status' = exit_status
            /\ pc' = "report_npp"
    /\ UNCHANGED <<script, env, i, loadVars, predictVars, bgcVars>>

\* ---------------------------------------------- dec27_code.py, STEP 5
\* 1. Productivity Analysis
BloomAnomaly(bloom, annual) == FMul(FDiv(FSub(bloom, annual), annual), Num(100))
BloomStatusInclusive(anomaly) ==
    IF ~FLt(anomaly, Num(20)) THEN "STATUS: STRONG BLOOM"
    ELSE IF FGt(anomaly, Num(0)) THEN "STATUS: NORMAL BLOOM"
    ELSE "STATUS: BLOOM FAILURE"
BloomStatus(anomaly) ==
    IF FGt(anomaly, Num(20)) THEN "STATUS: STRONG BLOOM"
    ELSE IF FGt(anomaly, Num(0)) THEN "STATUS: NORMAL BLOOM"
    ELSE "STATUS: BLOOM FAILURE"

DecReportNPP ==
    /\ pc = "report_npp"
    /\ IF integrated_npp.isnone
       THEN stdout' = Emit(stdout, "1. PRIMARY PRODUCTION: No data available")
       ELSE LET bloom == NanMean(SelBloom(integrated_npp.value, env.time))
                annual == NanMean(integrated_npp.value)
                anomaly == BloomAnomaly(bloom, annual)
            IN stdout' = Emit(EmitLine(stdout,
                                       [msg |-> "1. PRIMARY PRODUCTION ASSESSMENT",
                                        bloom |-> Format(bloom, 2),
                                        annual |-> Format(annual, 2),
                                        anomaly |-> Format(anomaly, 1)]),
                              BloomStatus(anomaly))
    /\ pc' = "report_no3"
    /\ UNCHANGED <<script, exit_status, env, i, loadVars, predictVars, bgcVars>>

\* 2. Nutrient Analysis
Diagnosis(bloom_surf, gradient) ==
    IF FLt(bloom_surf, Tenths(5)) /\ FGt(gradient, Num(10))
    THEN <<[msg |-> "DIAGNOSIS: Efficient nutrient utilization"]>>
    ELSE IF FGt(gradient, Num(15))
    THEN <<[msg |-> "DIAGNOSIS: Very strong upwelling"]>>
    ELSE IF FLt(bloom_surf, Tenths(5))
    THEN <<[msg |-> "DIAGNOSIS: Nutrient limitation"]>>
    ELSE <<>>

DecReportNutrients ==
    /\ pc = "report_no3"
    /\ IF surf_no3.isnone \/ deep_no3.isnone
       THEN stdout' = Emit(stdout, "2. UPWELLING STATUS: No data available")
       ELSE LET bloom_surf == NanMean(SelBloom(surf_no3.value, env.time))
                bloom_deep == NanMean(SelBloom(deep_no3.value, env.time))
                gradient == FSub(bloom_deep, bloom_surf)
            IN stdout' = EmitLine(stdout,
                                  [msg |-> "2. UPWELLING & NUTRIENT STATUS",
                                   surface |-> Format(bloom_surf, 3),
                                   deep |-> Format(bloom_deep, 3),
                                   gradient |-> Format(gradient, 3)])
                         \o Diagnosis(bloom_surf, gradient)
    /\ pc' = "report_o2"
    /\ UNCHANGED <<script, exit_status, env, i, loadVars, predictVars, bgcVars>>

\* 3. Oxygen Analysis
OxygenStatus(min_o2) ==
    IF FLt(min_o2, Num(60)) THEN "ALERT: Hypoxic events detected"
    ELSE IF FLt(min_o2, Num(120)) THEN "CAUTION: Oxygen stress periods"
    ELSE "OXYGEN: Healthy levels throughout"

DecReportOxygen ==
    /\ pc = "report_o2"
    /\ IF deep_o2.isnone
       THEN stdout' = Emit(stdout, "3. OXYGEN STATUS: No data available")
       ELSE LET min_o2 == NanMin(deep_o2.value)
            IN stdout' = Emit(EmitLine(stdout,
                                       [msg |-> "3. HABITAT OXYGEN ASSESSMENT",
                                        min_o2 |-> Format(min_o2, 2),
                                        mean_o2 |-> Format(NanMean(deep_o2.value), 2)]),
                              OxygenStatus(min_o2))
    /\ exit_status' = ExitNormal
    /\ pc' = "done"
    /\ UNCHANGED <<script, env, i, loadVars, predictVars, bgcVars>>

NextDec27 ==
    \/ DecExtractNPP \/ DecSelectNPP \/ DecFallbackChl \/ DecIntegrateNPP
    \/ DecExtractNO3 \/ DecReduceNO3 \/ DecExtractO2 \/ DecReduceO2
    \/ DecPlot \/ DecReportNPP \/ DecReportNutrients \/ DecReportOxygen

SpecDec27 == InitDec27 /\ [][NextDec27]_vars

\* ======================================================================
\* bio_3d.py
\* ======================================================================
\* files.items(), in the order of the dict literal
BioFileOrder == <<"konkan_bgc_chl_phyc.nc", "konkan_bgc_no3.nc", "konkan_bgc_nppv_o2.nc">>

InitBio3d ==
    /\ script = "bio_3d"
    /\ pc = "bio_load"
    /\ InitBgc

\* one iteration of `for key, fname in files.items()`
BioLoadFile ==
    /\ pc = "bio_load"
    /\ i <= Len(BioFileOrder)
    /\ LET fname == BioFileOrder[i]
       IN IF env.status[fname] = "missing"
          THEN /\ stdout' = EmitLine(stdout, [msg |-> "Error: File not found", fname |-> fname])
               /\ exit_status' = ExitNoArg
               /\ pc' = "done"
               /\ UNCHANGED <<datasets, i>>
          ELSE IF env.status[fname] = "corrupt"
          THEN \* xr.open_dataset raises, nothing catches it
               /\ stdout' = Emit(stdout, "Traceback: OSError")
               /\ exit_status' = ExitUncaught
               /\ pc' = "done"
               /\ UNCHANGED <<datasets, i>>
          ELSE /\ datasets' = Append(datasets, fname)
               /\ i' = i + 1
               /\ UNCHANGED <<stdout, exit_status, pc>>
    /\ UNCHANGED <<script, env, file_list, ds, predictVars, bgcVars>>

\* the names of the merged dataset, each with the file it comes from
RECURSIVE MergedVars(_)
MergedVars(fs) ==
    IF fs = <<>> THEN <<>>
    ELSE LET rest == MergedVars(Tail(fs))
             mine == env.data_vars[Head(fs)]
         IN [k \in 1..Len(mine) |-> [name |-> mine[k], fname |-> Head(fs)]]
            \o SelectSeq(rest, LAMBDA v : \A k \in 1..Len(mine) : mine[k] # v.name)

\* ds_merged = xr.merge(datasets); exit() when it raises
BioMerge ==
    /\ pc = "bio_load"
    /\ i > Len(BioFileOrder)
    /\ IF env.mergeable
       THEN /\ ds_merged' = Some(MergedVars(datasets))
            /\ stdout' = Emit(stdout, "Successfully merged 3D datasets.")
            /\ exit_status' = exit_status
            /\ pc' = "bio_metrics"
       ELSE /\ ds_merged' = ds_merged
            /\ stdout' = Emit(stdout, "Merge error")
            /\ exit_status' = ExitNoArg
            /\ pc' = "done"
    /\ UNCHANGED <<script, env, i, loadVars, predictVars, decVars,
                   npp_integrated, no3_surface, no3_deep, o2_deep>>

\* ratnagiri[name]: the variable of exactly that name, None for a KeyError
Ratnagiri(name) ==
    LET hits == {k \in 1..Len(ds_merged.value) : ds_merged.value[k].name = name}
    IN IF hits = {} THEN None
       ELSE Some(Subset(ds_merged.value[CHOOSE k \in hits : TRUE].fname, name))

\* .sum(dim='depth') of the levels 0..100, then the mean over the cells
SummedMean(sub) ==
    LET sel == SelDepthSlice(sub, Num(0), Num(100))
    IN [t \in 1..Len(sel.data) |->
          NanMean([c \in 1..NCells(sel) |->
                     NanSum([k \in 1..Len(sel.depth) |-> sel.data[t][k][c]])])]

\* STEP 2: the three metrics; a variable that is absent, or has no depth
\* dimension, raises and nothing catches it
BioMetrics ==
    /\ pc = "bio_metrics"
    /\ LET npp == Ratnagiri(nppv)
           nit == Ratnagiri(no3)
           oxy == Ratnagiri(o2)
       IN IF \/ npp.isnone \/ nit.isnone \/ oxy.isnone
             \/ npp.value.depth = <<>> \/ nit.value.depth = <<>> \/ oxy.value.depth = <<>>
          THEN /\ stdout' = Emit(stdout, "Traceback: KeyError")
               /\ exit_status' = ExitUncaught
               /\ pc' = "done"
               /\ UNCHANGED <<npp_integrated, no3_surface, no3_deep, o2_deep>>
          ELSE /\ npp_integrated' = Some(SummedMean(npp.value))
               /\ no3_surface' = Some(LevelMean(nit.value, NearestLevel(nit.value.depth, Hundredths(49))))
               /\ no3_deep' = Some(LevelMean(nit.value, NearestLevel(nit.value.depth, Num(100))))
               /\ o2_deep' = Some(LevelMean(oxy.value, NearestLevel(oxy.value.depth, Num(50))))
               /\ UNCHANGED <<stdout, exit_status>>
               /\ pc' = "bio_report"
    /\ UNCHANGED <<script, env, i, loadVars, predictVars, decVars, ds_merged>>

BioBloomStatus(bloom_prod, avg_prod) ==
    IF FLt(bloom_prod, avg_prod)
    THEN "STATUS: BLOOM FAILURE CONFIRMED in 3D Model."
    ELSE "STATUS: Hidden Sub-surface Bloom Detected!"
BioNutrientCause(bloom_no3) ==
    IF FLt(bloom_no3, Tenths(5))
    THEN "CAUSE: NUTRIENT LIMITATION."
    ELSE "CAUSE: Nutrients available."
BioOxygenStatus(min_o2) ==
    IF FLt(min_o2, Num(60))
    THEN "WARNING: HYPOXIC EVENT DETECTED."
    ELSE "STATUS: Oxygen levels safe."

\* STEP 4: INTERPRETATION & FORECAST
BioReport ==
    /\ pc = "bio_report"
    /\ LET bloom_prod == NanMean(SelBloom(npp_integrated.value, env.time))
           avg_prod == NanMean(npp_integrated.value)
           bloom_no3 == NanMean(SelBloom(no3_surface.value, env.time))
           min_o2 == NanMin(o2_deep.value)
       IN stdout' = stdout \o
            <<[msg |-> "1. Integrated Production (Bloom Period)",
               bloom_prod |-> Format(bloom_prod, 2), avg_prod |-> Format(avg_prod, 2)],
              [msg |-> BioBloomStatus(bloom_prod, avg_prod)],
              [msg |-> "2. Nutrient Diagnostic (Surface NO3)",
               bloom_no3 |-> Format(bloom_no3, 4)],
              [msg |-> BioNutrientCause(bloom_no3)],
              [msg |-> "3. Oxygen Safety: Minimum O2 at 50m",
               min_o2 |-> Format(min_o2, 2)],
              [msg |-> BioOxygenStatus(min_o2)]>>
    /\ exit_status' = ExitNormal
    /\ pc' = "done"
    /\ UNCHANGED <<script, env, i, loadVars, predictVars, bgcVars>>

NextBio3d == BioLoadFile \/ BioMerge \/ BioMetrics \/ BioReport

SpecBio3d == InitBio3d /\ [][NextBio3d]_vars

\* ======================================================================
\* Zone selection: .sel(lat=slice(...)) in the four scripts
\* ======================================================================
MaxLats == 4

\* the latitude slices of each script, in tenths of a degree, as written:
\* north to south in processing.py and output.py, south to north in the 3D
\* scripts
ZoneLatSlice(name) ==
    IF name \in {"processing", "output"}
    THEN <<[start |-> 195, stop |-> 185],
           [start |-> 175, stop |-> 165],
           [start |-> 165, stop |-> 155]>>
    ELSE <<[start |-> 165, stop |-> 175]>>

\* index.sel(slice(start, stop)) on a monotonic coordinate: the labels from
\* start to stop in the direction the coordinate runs, both ends included;
\* a coordinate of one label counts as increasing
SelSlice(index, start, stop) ==
    IF Len(index) = 1 \/ index[1] < index[2]
    THEN SelectSeq(index, LAMBDA x : start <= x /\ x <= stop)
    ELSE SelectSeq(index, LAMBDA x : stop <= x /\ x <= start)

\* env.lat: the latitude coordinate of the grid, increasing or decreasing
InitSelect ==
    /\ IdleBgc
    /\ script \in {"processing", "output", "dec27", "bio_3d"}
    /\ env \in {[lat |-> g] :
                  g \in {h \in UNION {[1..n -> {150, 160, 165, 170, 180, 190}] : n \in 1..MaxLats} :
                            \/ \A k \in 1..(Len(h) - 1) : h[k] < h[k + 1]
                            \/ \A k \in 1..(Len(h) - 1) : h[k] > h[k + 1]}}
    /\ pc = "select"
    /\ exit_status = -1   \* no exit status while the script runs
    /\ stdout = <<>>
    /\ i = 1
    /\ file_list = <<>>
    /\ datasets = <<>>
    /\ ds = <<>>
    /\ zone_data = <<>>
    /\ ts = <<>>
    /\ prediction_report = <<>>

\* zone_data = ds_weekly.sel(lat=bounds['lat'], ...) for the next zone
SelectZone ==
    /\ pc = "select"
    /\ i <= Len(ZoneLatSlice(script))
    /\ zone_data' = SelSlice(env.lat, ZoneLatSlice(script)[i].start,
                             ZoneLatSlice(script)[i].stop)
    /\ i' = i + 1
    /\ pc' = IF i = Len(ZoneLatSlice(script)) THEN "done" ELSE "select"
    /\ UNCHANGED <<script, exit_status, stdout, env, file_list, datasets, ds,
                   ts, prediction_report, bgcVars>>

NextSelect == SelectZone

SpecSelect == InitSelect /\ [][NextSelect]_vars

\* ======================================================================
\* The loader's claims (SpecLoad)
\* ======================================================================
Opens(f) == env[f] = "file"
YieldsTimestamp(f) == ExtractTimestamp(f).kind = "time"
Usable(f) == Opens(f) /\ YieldsTimestamp(f)
UsableFiles == {f \in DOMAIN env : env[f] # "dir" /\ Usable(f)}

Printed(text) == \E k \in 1..Len(stdout) : stdout[k].msg = text
LoopOver == pc \in {"loaded", "done"} \/ (pc = "load" /\ i > Len(file_list))

RECURSIVE SelectUsable(_)
SelectUsable(fs) ==
    IF fs = <<>> THEN <<>>
    ELSE IF Usable(Head(fs)) THEN <<Head(fs)>> \o SelectUsable(Tail(fs))
    ELSE SelectUsable(Tail(fs))

LoadedFiles == [k \in 1..Len(datasets) |-> datasets[k].file]

\* C1: when no file is usable the run ends, before any report, with an
\* error message and a nonzero exit status, and never with a traceback.
C1_EmptyRunFailsNonzero ==
    (pc = "done" /\ UsableFiles = {}) =>
        /\ exit_status # 0
        /\ ~Printed("Traceback: ValueError")
        /\ ~Printed("REPORT")
        /\ \/ Printed("Error: No files found")
           \/ Printed("Error: No valid datasets could be loaded.")

\* C2: at every point of the loading loop the files loaded so far are exactly
\* the usable ones among the files already visited, in order, so a bad file
\* costs only itself and the assembled dataset holds every usable file.
C2_BadFileSkippedOnly ==
    /\ pc = "load" => LoadedFiles = SelectUsable(SubSeq(file_list, 1, i - 1))
    /\ LoopOver => {LoadedFiles[k] : k \in 1..Len(datasets)} = UsableFiles
    /\ pc = "load" => exit_status = -1

C2_Witness ==
    /\ pc = "loaded"
    /\ \E a, b \in 1..Len(file_list) :
          /\ a < b
          /\ ~Usable(file_list[a])
          /\ \E k \in 1..Len(datasets) : datasets[k].file = file_list[b]

Days == 1..DaysInYear
HoldsYmd(f) == \E d \in Days : Contains(f, WriteYmd(d))
RecoveredAs(f, d) == \E k \in 1..Len(datasets) : datasets[k] = [file |-> f, time |-> d]

\* C3: a readable file whose name holds a YYYYMMDD date of 2025, or holds a
\* YYYYDDD date of 2025 and no YYYYMMDD date, is loaded with exactly that date.
C3_DateRecoveredExactly ==
    LoopOver =>
        \A f \in {g \in DOMAIN env : env[g] = "file"} : \A d \in Days :
            /\ Contains(f, WriteYmd(d)) => RecoveredAs(f, d)
            /\ (Contains(f, WriteJulian(d)) /\ ~HoldsYmd(f)) => RecoveredAs(f, d)

\* C4: the time index of the assembled dataset is strictly increasing.
C4_TimeStrictlyIncreasing ==
    pc = "loaded" => \A k \in 1..(Len(ds) - 1) : ds[k] < ds[k + 1]

\* ======================================================================
\* The three scripts that print a report (SpecReports)
\* ======================================================================
InitReports == InitPredict \/ InitDec27 \/ InitBio3d
NextReports == NextPredict \/ NextDec27 \/ NextBio3d
SpecReports == InitReports /\ [][NextReports]_vars

\* the values of a quantity in the box at the time steps `steps`
CellsOf(kind, steps) ==
    {env.field[kind][t][k][c] :
        t \in steps, k \in 1..NLayers(StdDepth), c \in 1..1}
BloomSteps == {t \in 1..Len(env.time) : env.time[t]}
WindowMissing(kind) == \A x \in CellsOf(kind, BloomSteps) : IsNaN(x)
PeriodMissing(kind) == \A x \in CellsOf(kind, 1..Len(env.time)) : IsNaN(x)
ZoneMissing(z) ==
    \A w \in 1..Len(env.time) :
        env.time[w] => \A c \in 1..Len(env.grid[z][w]) : IsNaN(env.grid[z][w][c])

BloomLabels == {"STATUS: STRONG BLOOM", "STATUS: NORMAL BLOOM", "STATUS: BLOOM FAILURE",
                "STATUS: BLOOM FAILURE CONFIRMED in 3D Model.",
                "STATUS: Hidden Sub-surface Bloom Detected!"}
NutrientLabels == {"DIAGNOSIS: Efficient nutrient utilization",
                   "DIAGNOSIS: Very strong upwelling", "DIAGNOSIS: Nutrient limitation",
                   "CAUSE: NUTRIENT LIMITATION.", "CAUSE: Nutrients available."}
AlertLabels == {"ALERT: Hypoxic events detected", "WARNING: HYPOXIC EVENT DETECTED."}
CautionLabels == {"CAUTION: Oxygen stress periods"}
HealthyLabels == {"OXYGEN: Healthy levels throughout", "STATUS: Oxygen levels safe."}
OxygenLabels == AlertLabels \cup CautionLabels \cup HealthyLabels

Lines == {stdout[k] : k \in 1..Len(stdout)}
IsNumber(shown) == shown.text = "number"
ShowsProduction ==
    \E l \in Lines :
        \/ l.msg \in BloomLabels
        \/ l.msg = "1. PRIMARY PRODUCTION ASSESSMENT" /\ IsNumber(l.bloom)
        \/ l.msg = "1. Integrated Production (Bloom Period)" /\ IsNumber(l.bloom_prod)
ShowsNutrients ==
    \E l \in Lines :
        \/ l.msg \in NutrientLabels
        \/ l.msg = "2. UPWELLING & NUTRIENT STATUS" /\ IsNumber(l.surface)
        \/ l.msg = "2. Nutrient Diagnostic (Surface NO3)" /\ IsNumber(l.bloom_no3)
ShowsOxygen ==
    \E l \in Lines :
        \/ l.msg \in OxygenLabels
        \/ l.msg = "3. HABITAT OXYGEN ASSESSMENT" /\ IsNumber(l.min_o2)
        \/ l.msg = "3. Oxygen Safety: Minimum O2 at 50m" /\ IsNumber(l.min_o2)

\* C5: a zone or variable whose selected cells are all missing (an empty
\* selection included) gets no report line that shows a number or a status:
\* no row in output.py for such a zone, and in the 3D scripts no production
\* or nutrient line for a variable missing over the bloom window and no
\* oxygen line for a variable missing over the whole period.
C5_AllMissingReportedUnavailable ==
    /\ script = "output" =>
          \A l \in Lines : l.msg = "row" => ~ZoneMissing(l.Zone)
    /\ script \in {"dec27", "bio_3d"} =>
          /\ WindowMissing("nppv") => ~ShowsProduction
          /\ WindowMissing("no3") => ~ShowsNutrients
          /\ PeriodMissing("o2") => ~ShowsOxygen

\* a metric of bio_3d.py can be had: some readable file holds the variable
\* with a depth axis
Obtainable(name) ==
    \E f \in BgcFiles :
        /\ env.status[f] = "ok"
        /\ env.depth[f] # <<>>
        /\ \E k \in 1..Len(env.data_vars[f]) : env.data_vars[f][k] = name
BioMetricNames == {nppv, no3, o2}

\* C6: a run of a 3D script ends with a nonzero exit status exactly when no
\* metric at all is available or the merge fails; otherwise it ends with
\* exit status 0 after reporting every metric that is available.
C6_LocalFailureNeverAborts ==
    /\ (script = "dec27" /\ pc = "done") =>
          IF integrated_npp.isnone /\ surf_no3.isnone /\ deep_o2.isnone
          THEN exit_status # 0
          ELSE /\ exit_status = 0
               /\ ~integrated_npp.isnone => Printed("1. PRIMARY PRODUCTION ASSESSMENT")
               /\ ~surf_no3.isnone => Printed("2. UPWELLING & NUTRIENT STATUS")
               /\ ~deep_o2.isnone => Printed("3. HABITAT OXYGEN ASSESSMENT")
    /\ (script = "bio_3d" /\ pc = "done") =>
          IF (\A v \in BioMetricNames : ~Obtainable(v)) \/ ~env.mergeable
          THEN exit_status # 0
          ELSE /\ exit_status = 0
               /\ Obtainable(nppv) => Printed("1. Integrated Production (Bloom Period)")
               /\ Obtainable(no3) => Printed("2. Nutrient Diagnostic (Surface NO3)")
               /\ Obtainable(o2) => Printed("3. Oxygen Safety: Minimum O2 at 50m")

\* ----------------------------------------------------------- SpecDec27
Called == last_call.fname # ""
Opened == Called /\ env.status[last_call.fname] = "ok"
Requested == last_call.var_name
Available == env.data_vars[last_call.fname]
ExactlyPresent == \E k \in 1..Len(Available) : Available[k] = Requested
Candidates == {k \in 1..Len(Available) : Contains(Lower(Available[k]), Lower(Requested))}
FirstCandidate == Available[CHOOSE k \in Candidates : \A m \in Candidates : k <= m]

\* C7: extract_and_process uses the exact name when the file has it; else the
\* first variable, in file order, whose lower-cased name contains the
\* lower-cased request, and logs the substitution; else it returns nothing,
\* says so, and the run goes on to the remaining metrics.
C7_VariableResolution ==
    Opened =>
        /\ ExactlyPresent => last_call.target_var = Requested
        /\ (~ExactlyPresent /\ Candidates # {}) =>
              /\ last_call.target_var = FirstCandidate
              /\ [msg |-> "Using", v |-> FirstCandidate, requested |-> Requested] \in Lines
        /\ (~ExactlyPresent /\ Candidates = {}) =>
              /\ last_call.target_var = NoVar
              /\ ~last_call.found
              /\ \E l \in Lines : l.msg = "Variable not found" /\ l.requested = Requested
              /\ exit_status # ExitUncaught
              /\ pc = "done" => Requested = o2

C7_Witness ==
    /\ Opened
    /\ ~ExactlyPresent
    /\ Cardinality(Candidates) = 2
    /\ last_call.found
    /\ last_call.target_var = FirstCandidate

\* ---------------------------------------------------------- SpecPredict
Rows == {l \in Lines : l.msg = "row"}
PpiOf(l) ==
    prediction_report[CHOOSE r \in 1..Len(prediction_report) :
                          prediction_report[r].Zone = l.Zone].PPI_Anomaly
Below(p, bound) == p.n < bound * p.d

\* C8: for every zone whose PPI anomaly percentage p is a number, the row
\* output.py prints carries exactly one status: CRITICAL when p < -50,
\* STRESSED when -50 <= p < -20, STABLE when p >= -20.
C8_StatusBands ==
    \A l \in Rows :
        LET p == PpiOf(l)
        IN IsFinite(p) =>
              /\ l.status \in {"CRITICAL", "STRESSED", "STABLE"}
              /\ l.status = "CRITICAL" <=> Below(p, -50)
              /\ l.status = "STRESSED" <=> (~Below(p, -50) /\ Below(p, -20))
              /\ l.status = "STABLE" <=> ~Below(p, -20)

C8_Witness ==
    \E l \in Rows : PpiOf(l) = Num(-50) /\ l.status = "STRESSED"

\* ---------------------------------------------------------- SpecReports
OxygenSeries ==
    IF script = "dec27" THEN deep_o2 ELSE IF script = "bio_3d" THEN o2_deep ELSE None
OxygenBand(m) ==
    IF Below(m, 60) THEN AlertLabels
    ELSE IF Below(m, 120) THEN CautionLabels
    ELSE HealthyLabels

\* C9: when a 3D script has reported oxygen, the one oxygen label it printed
\* is the band of the minimum m of its deep-oxygen series: alert for m < 60,
\* caution for 60 <= m < 120, healthy for m >= 120, the same in both scripts.
C9_OxygenThreeBands ==
    (pc = "done" /\ ~OxygenSeries.isnone /\ IsFinite(NanMin(OxygenSeries.value))) =>
        /\ \E l \in Lines : l.msg \in OxygenBand(NanMin(OxygenSeries.value))
        /\ \A l \in Lines : l.msg \in OxygenLabels =>
                               l.msg \in OxygenBand(NanMin(OxygenSeries.value))

ProductionReported ==
    script = "dec27" /\ pc \in {"report_no3", "report_o2", "done"} /\ ~integrated_npp.isnone
bloom_mean == NanMean(SelBloom(integrated_npp.value, env.time))
annual_mean == NanMean(integrated_npp.value)
Anomaly == FMul(FDiv(FSub(bloom_mean, annual_mean), annual_mean), Num(100))
LabelOf(anomaly) ==
    IF ~Below(anomaly, 20) /\ anomaly # Num(20) THEN "STATUS: STRONG BLOOM"
    ELSE IF ~Below(anomaly, 0) /\ anomaly # Num(0) THEN "STATUS: NORMAL BLOOM"
    ELSE "STATUS: BLOOM FAILURE"

\* C10: in dec27_code.py, for every bloom mean and every nonzero annual mean,
\* the one bloom label printed is STRONG BLOOM when the anomaly exceeds 20,
\* NORMAL BLOOM when it lies in (0, 20], BLOOM FAILURE otherwise, so +25% is
\* a strong bloom and -60% a bloom failure; in output.py a PPI anomaly of
\* +25% is forecast as growth and one of -60% is CRITICAL.
C10_AnomalyBands ==
    /\ (ProductionReported /\ IsFinite(bloom_mean) /\ IsFinite(annual_mean)
                           /\ annual_mean # Num(0)) =>
          /\ LabelOf(Anomaly) \in {l.msg : l \in Lines}
          /\ \A l \in Lines : l.msg \in BloomLabels => l.msg = LabelOf(Anomaly)
          /\ Anomaly = Num(25) => Printed("STATUS: STRONG BLOOM")
          /\ Anomaly = Num(-60) => Printed("STATUS: BLOOM FAILURE")
    /\ script = "output" =>
          \A l \in Rows :
              /\ PpiOf(l) = Num(25) => l.forecast_str.direction = "Growth"
              /\ PpiOf(l) = Num(-60) => l.status = "CRITICAL"

C10_Witness ==
    /\ ProductionReported
    /\ Anomaly = Num(25)
    /\ Printed("STATUS: STRONG BLOOM")

\* ---------------------------------------------------------- SpecPredict
Forecasts == {prediction_report[r] : r \in 1..Len(prediction_report)}
AnomalyFraction(row) == FDiv(FSub(row.Observed_Chl, Num(2)), Num(2))
Undamped(row) == FMul(FMul(AnomalyFraction(row), Tenths(8)), Num(100))
ObservedAbove(row, hundredths) ==
    row.Observed_Chl.n * 100 > hundredths * row.Observed_Chl.d

\* C11: for every zone whose observed value is a number, the yield forecast
\* is anomaly * 0.8 * 100 when the anomaly is negative or zero, and that
\* product times 0.2, once, when the anomaly is positive.
C11_DampingOnlyOnGrowth ==
    \A row \in Forecasts :
        IsFinite(row.Observed_Chl) =>
            IF ObservedAbove(row, 200)
            THEN row.Yield_Forecast = FMul(Undamped(row), Tenths(2))
            ELSE row.Yield_Forecast = Undamped(row)

C11_Witness ==
    \E row \in Forecasts :
        /\ row.Observed_Chl = Hundredths(250)
        /\ row.Yield_Forecast = Num(4)

\* ------------------------------------------------------------ SpecDec27
NutrientsReported ==
    /\ script = "dec27"
    /\ pc \in {"report_o2", "done"}
    /\ ~surf_no3.isnone
    /\ ~deep_no3.isnone
bloom_surface == NanMean(SelBloom(surf_no3.value, env.time))
bloom_gradient == FSub(NanMean(SelBloom(deep_no3.value, env.time)), bloom_surface)
Exceeds(x, bound) == x.n > bound * x.d
LowSurface == bloom_surface.n * 2 < bloom_surface.d
Diagnoses == {l.msg : l \in Lines} \cap NutrientLabels

\* C12: with gradient = deep - surface nitrate over the bloom window, every
\* gradient above 15 is diagnosed as very strong upwelling; a low surface
\* (< 0.5) with a gradient in (10, 15] as efficient utilization; a low
\* surface with a gradient of at most 10 as nutrient limitation.
C12_UpwellingBands ==
    (NutrientsReported /\ IsFinite(bloom_surface) /\ IsFinite(bloom_gradient)) =>
        /\ Exceeds(bloom_gradient, 15) =>
              Diagnoses = {"DIAGNOSIS: Very strong upwelling"}
        /\ (LowSurface /\ Exceeds(bloom_gradient, 10) /\ ~Exceeds(bloom_gradient, 15)) =>
              Diagnoses = {"DIAGNOSIS: Efficient nutrient utilization"}
        /\ (LowSurface /\ ~Exceeds(bloom_gradient, 10)) =>
              Diagnoses = {"DIAGNOSIS: Nutrient limitation"}

\* ----------------------------------------------------------- SpecSelect
Selected == pc \in {"select", "done"} /\ i > 1
LastSlice == ZoneLatSlice(script)[i - 1]
InsideLast(x) ==
    \/ LastSlice.start <= x /\ x <= LastSlice.stop
    \/ LastSlice.stop <= x /\ x <= LastSlice.start

\* C13: whichever way the latitude coordinate runs, a zone that contains a
\* grid latitude is selected as a non-empty sub-grid, in every script.
C13_SelectionNonEmptyBothOrientations ==
    Selected =>
        ((\E k \in 1..Len(env.lat) : InsideLast(env.lat[k])) => zone_data # <<>>)

\* ---------------------------------------------------------- SpecReports
\* the production profile read by the script at time step t
ProductionCells(t) ==
    {env.field["nppv"][t][k][c] :
        k \in 1..NLayers(env.depth[files.prod]), c \in 1..1}
UniformAt(t) == \E v \in ProductionCells(t) : IsFinite(v) /\ ProductionCells(t) = {v}
UniformValue(t) == CHOOSE v \in ProductionCells(t) : TRUE
IntegratedSeries ==
    IF script = "dec27" /\ ~Printed("Using chlorophyll as productivity proxy")
    THEN integrated_npp
    ELSE IF script = "bio_3d" THEN npp_integrated
    ELSE None

\* C14: for a production profile with the same value v at every sampled
\* level, the depth-integrated production of dec27_code.py and of bio_3d.py
\* is v * 100, whatever the sampled depth levels are.
C14_UniformProfileIntegral ==
    ~IntegratedSeries.isnone =>
        \A t \in 1..Len(env.time) :
            UniformAt(t) =>
                IntegratedSeries.value[t] = FMul(UniformValue(t), Num(100))

\* ------------------------------------------------------------ SpecDec27
PastNitrate == pc \in {"o2_extract", "o2_reduce", "plot", "report_npp",
                       "report_no3", "report_o2", "done"}
PastOxygen == pc \in {"plot", "report_npp", "report_no3", "report_o2", "done"}
HasLevels(sub) == ~sub.isnone /\ sub.value.depth # <<>>
Distance(x, y) == IF FLt(x, y) THEN FSub(y, x) ELSE FSub(x, y)
Deepest(depth) == CHOOSE x \in {depth[k] : k \in 1..Len(depth)} :
                      \A k \in 1..Len(depth) : ~FLt(x, depth[k])
Shallowest(depth) == CHOOSE x \in {depth[k] : k \in 1..Len(depth)} :
                         \A k \in 1..Len(depth) : ~FLt(depth[k], x)
Clamped(depth, target) == IF FLt(Deepest(depth), target) THEN Deepest(depth) ELSE target
NearestLevels(depth, x) ==
    {k \in 1..Len(depth) :
        \A m \in 1..Len(depth) : ~FLt(Distance(depth[m], x), Distance(depth[k], x))}
SeriesAt(sub, k) == [t \in 1..Len(sub.value.data) |-> NanMean(sub.value.data[t][k])]

\* C15: for every non-empty set of depth levels, dec27_code.py takes surface
\* nitrate at the shallowest level, deep nitrate at a level nearest to
\* min(100, deepest level) and oxygen at a level nearest to
\* min(50, deepest level); the level is always one of those present.
C15_DepthClampedToData ==
    /\ (script = "dec27" /\ PastNitrate /\ HasLevels(no3_subset)) =>
          /\ ~surf_no3.isnone
          /\ ~deep_no3.isnone
          /\ \E k \in 1..Len(no3_subset.value.depth) :
                /\ no3_subset.value.depth[k] = Shallowest(no3_subset.value.depth)
                /\ surf_no3.value = SeriesAt(no3_subset, k)
          /\ \E k \in NearestLevels(no3_subset.value.depth,
                                    Clamped(no3_subset.value.depth, Num(100))) :
                deep_no3.value = SeriesAt(no3_subset, k)
    /\ (script = "dec27" /\ PastOxygen /\ HasLevels(o2_subset)) =>
          /\ ~deep_o2.isnone
          /\ \E k \in NearestLevels(o2_subset.value.depth,
                                    Clamped(o2_subset.value.depth, Num(50))) :
                deep_o2.value = SeriesAt(o2_subset, k)

C15_Witness ==
    /\ script = "dec27"
    /\ PastNitrate
    /\ HasLevels(no3_subset)
    /\ Deepest(no3_subset.value.depth) = Num(90)
    /\ deep_no3.value = SeriesAt(no3_subset, 3)
    /\ deep_no3.value # SeriesAt(no3_subset, 2)

\* ---------------------------------------------------------- SpecPredict
RowOf(l) == CHOOSE row \in Forecasts : row.Zone = l.Zone
Direction(l) == l.forecast_str.direction

\* C16: in every report row of output.py a STRESSED or CRITICAL status comes
\* with a Decline forecast, a Growth forecast comes with status STABLE, and
\* the forecast is Growth exactly when the observed bloom value is a number
\* strictly greater than the baseline 2.0.
C16_StatusAgreesWithForecast ==
    \A l \in Rows :
        /\ l.status \in {"STRESSED", "CRITICAL"} => Direction(l) = "Decline"
        /\ Direction(l) = "Growth" => l.status = "STABLE"
        /\ Direction(l) = "Growth" <=>
              (IsFinite(RowOf(l).Observed_Chl) /\ ObservedAbove(RowOf(l), 200))

C16_Witness ==
    \E l \in Rows :
        /\ Direction(l) = "Growth"
        /\ l.status = "STABLE"
        /\ ObservedAbove(RowOf(l), 200)

====
